---------------------------- MODULE Spec2Model ----------------------------
(***************************************************************************)
(* Frame-level models of src/frame_level_models.py as a state machine.     *)
(*                                                                         *)
(* Every model class is a stateless graph builder: one create_model call   *)
(* takes a padded batch model_input[batch][time], the true frame counts    *)
(* num_frames[batch] and the global FLAGS, and returns a predictions       *)
(* mapping or stops with a Python exception.  A state of the machine is    *)
(* the batch at hand and the last call made on it: which model ran, the    *)
(* FLAGS in effect and the values the call computed on the way.            *)
(*                                                                         *)
(* Tensors are sequences: a [batch, time] tensor is a sequence over the    *)
(* batch of sequences over time.  The feature axis is carried by one       *)
(* scalar per frame, since every operation the models apply to frames is   *)
(* elementwise in the features; state vectors of the recurrent cells keep  *)
(* their feature axis where the code concatenates or indexes along it.     *)
(* Python positions are 0-based, sequence indices here are 1-based:        *)
(* position p of the code is index p + 1.                                  *)
(***************************************************************************)
EXTENDS Integers, Sequences, FiniteSets, TLC

VARIABLES called, FLAGS, model_input, num_frames, result

vars == <<called, FLAGS, model_input, num_frames, result>>

---------------------------------------------------------------------------
(* Bounds of the model *)

\* examples in a batch
BatchSize == 1

\* time dimension of the padded input (max_frames)
MaxFrames == 2

\* values a frame feature takes
FrameValues == {0, 1}

BatchIndex == 1..BatchSize

TimeIndex == 1..MaxFrames

\* one padded example: max_frames frames
PaddedExamples == [TimeIndex -> FrameValues]

\* model_input: 'batch_size' x 'max_frames' (x 'num_features')
Inputs == [BatchIndex -> PaddedExamples]

\* num_frames: 0 <= count <= max_frames for each example
FrameCounts == [BatchIndex -> 0..MaxFrames]

---------------------------------------------------------------------------
(* Arithmetic helpers *)

RECURSIVE SumSeq(_)
SumSeq(s) == IF s = <<>> THEN 0 ELSE Head(s) + SumSeq(Tail(s))

RECURSIVE MaxSeq(_)
MaxSeq(s) ==
  IF Len(s) = 1 THEN s[1]
  ELSE LET m == MaxSeq(Tail(s)) IN IF Head(s) >= m THEN Head(s) ELSE m

\* float32 division x / d of two integer-valued floats: a quotient kept as
\* numerator and denominator, or the IEEE value a zero denominator gives
FloatDiv(x, d) ==
  IF d # 0 THEN [kind |-> "finite", num |-> x, den |-> d]
  ELSE IF x = 0 THEN [kind |-> "nan", num |-> 0, den |-> 0]
  ELSE [kind |-> "inf", num |-> x, den |-> 0]

\* equality of two float values as numbers (nan equals nothing)
FloatEq(a, b) ==
  \/ a.kind = "finite" /\ b.kind = "finite" /\ a.num * b.den = b.num * a.den
  \/ a.kind = "inf" /\ b.kind = "inf" /\ (a.num > 0) = (b.num > 0)

---------------------------------------------------------------------------
(* FrameLevelLogisticModel *)

\* tf.reduce_sum(model_input, axis=[1]): the sum over the whole time axis
ReduceSumTime(input) == [b \in DOMAIN input |-> SumSeq(input[b])]

\* denominators: num_frames cast to float and tiled over the features
Denominators(counts) == [b \in DOMAIN counts |-> counts[b]]

\* avg_pooled = tf.reduce_sum(model_input, axis=[1]) / denominators
AvgPooled(input, counts) ==
  [b \in DOMAIN input |->
     FloatDiv(ReduceSumTime(input)[b], Denominators(counts)[b])]

FrameLevelLogisticModel ==
  /\ called = "none"
  /\ called' = "FrameLevelLogisticModel"
  /\ FLAGS' = [none |-> TRUE]
  /\ result' = [status |-> "ok",
                denominators |-> Denominators(num_frames),
                avg_pooled |-> AvgPooled(model_input, num_frames)]
  /\ UNCHANGED <<model_input, num_frames>>

---------------------------------------------------------------------------
(* Recurrent cells.                                                        *)
(*                                                                         *)
(* The arithmetic of a cell (gates, learned weights) belongs to the tensor *)
(* library.  It is replaced by a fixed mixing function over a small ring,  *)
(* chosen so that the new state depends on the old state and on the input. *)
(* The structure of the states is kept: an LSTM state is an                *)
(* LSTMStateTuple (c, h), a GRU state is one tensor, the state of an       *)
(* attention-wrapped cell is the plain tuple (cell state, attns,           *)
(* attn_states).                                                           *)

\* size of the ring the surrogate cell arithmetic works in
CellModulus == 5

Mix(a, b) == (2 * a + b + 1) % CellModulus

\* the cell's own zero state, for one example
BaseZeroState(kind) ==
  IF kind = "BasicLSTMCell"
    THEN [type |-> "LSTMStateTuple", c |-> 0, h |-> 0]
    ELSE [type |-> "Tensor", v |-> 0]

\* one step of the unwrapped cell on input x: the output and the new state
BaseStep(kind, x, s) ==
  IF kind = "BasicLSTMCell"
    THEN LET c == Mix(s.c, x + s.h)
             h == Mix(c, x)
         IN  [out |-> h, state |-> [type |-> "LSTMStateTuple", c |-> c, h |-> h]]
    ELSE LET h == Mix(s.v, x)
         IN  [out |-> h, state |-> [type |-> "Tensor", v |-> h]]

\* the flattened state an attention wrapper attends over
FlatState(s) ==
  IF s.type = "LSTMStateTuple" THEN Mix(s.c, s.h)
  ELSE IF s.type = "Tensor" THEN s.v
  ELSE 0

\* zero state of a cell under its wrappers (innermost wrapper first)
RECURSIVE WrappedZeroState(_, _)
WrappedZeroState(kind, wrappers) ==
  IF wrappers = <<>> THEN BaseZeroState(kind)
  ELSE LET inner == SubSeq(wrappers, 1, Len(wrappers) - 1)
       IN  IF wrappers[Len(wrappers)] = "AttentionCellWrapper"
             THEN [type |-> "tuple", cell |-> WrappedZeroState(kind, inner),
                   attns |-> 0, attn_states |-> 0]
             ELSE WrappedZeroState(kind, inner)

\* one step of a cell under its wrappers
RECURSIVE WrappedStep(_, _, _, _)
WrappedStep(kind, wrappers, x, s) ==
  IF wrappers = <<>> THEN BaseStep(kind, x, s)
  ELSE LET inner == SubSeq(wrappers, 1, Len(wrappers) - 1)
       IN  IF wrappers[Len(wrappers)] = "ResidualWrapper"
             THEN LET r == WrappedStep(kind, inner, x, s)
                  IN  [out |-> x + r.out, state |-> r.state]
             ELSE LET r  == WrappedStep(kind, inner, Mix(x, s.attns), s.cell)
                      na == Mix(FlatState(r.state), s.attn_states)
                  IN  [out |-> Mix(r.out, na),
                       state |-> [type |-> "tuple", cell |-> r.state,
                                  attns |-> na,
                                  attn_states |-> Mix(s.attn_states,
                                                      FlatState(r.state))]]

\* MultiRNNCell: zero state of the stack, one state per layer
MultiZeroState(cells) ==
  [l \in DOMAIN cells |-> WrappedZeroState(cells[l].kind, cells[l].wrappers)]

\* MultiRNNCell: the layers in order, each fed the output of the one below
RECURSIVE MultiStepFrom(_, _, _, _)
MultiStepFrom(cells, l, x, s) ==
  IF l > Len(cells) THEN [out |-> x, state |-> s]
  ELSE LET r == WrappedStep(cells[l].kind, cells[l].wrappers, x, s[l])
       IN  MultiStepFrom(cells, l + 1, r.out, [s EXCEPT ![l] = r.state])

MultiStep(cells, x, s) == MultiStepFrom(cells, 1, x, s)

\* tf.nn.dynamic_rnn on one example: time steps t = 0 .. time-1 in order; at
\* a step with t >= sequence_length the output is zero and the state is
\* copied through, otherwise the cell steps
RECURSIVE RnnExampleFrom(_, _, _, _, _, _)
RnnExampleFrom(cells, xs, len, t, s, outs) ==
  IF t > Len(xs) THEN [outputs |-> outs, state |-> s]
  ELSE IF t - 1 >= len
    THEN RnnExampleFrom(cells, xs, len, t + 1, s, Append(outs, 0))
    ELSE LET r == MultiStep(cells, xs[t], s)
         IN  RnnExampleFrom(cells, xs, len, t + 1, r.state, Append(outs, r.out))

\* tf.nn.dynamic_rnn on a batch: every example on its own sequence_length
dynamic_rnn(cells, inputs, sequence_length) ==
  [b \in DOMAIN inputs |->
     RnnExampleFrom(cells, inputs[b], sequence_length[b], 1,
                    MultiZeroState(cells), <<>>)]

\* the outputs tensor [batch, time] of a run
RnnOutputs(run) == [b \in DOMAIN run |-> run[b].outputs]

\* the final state of layer l as tensors over the batch
RECURSIVE BatchState(_, _)
BatchState(exStates, type) ==
  IF type = "LSTMStateTuple"
    THEN [type |-> "LSTMStateTuple",
          c |-> [b \in DOMAIN exStates |-> exStates[b].c],
          h |-> [b \in DOMAIN exStates |-> exStates[b].h]]
  ELSE IF type = "Tensor"
    THEN [type |-> "Tensor", v |-> [b \in DOMAIN exStates |-> exStates[b].v]]
  ELSE [type |-> "tuple",
        cell |-> BatchState([b \in DOMAIN exStates |-> exStates[b].cell],
                            exStates[1].cell.type),
        attns |-> [b \in DOMAIN exStates |-> exStates[b].attns],
        attn_states |-> [b \in DOMAIN exStates |-> exStates[b].attn_states]]

\* the final state of a run: a tuple over the layers
RnnState(run, cells) ==
  [l \in DOMAIN cells |->
     BatchState([b \in DOMAIN run |-> run[b].state[l]], run[1].state[l].type)]

---------------------------------------------------------------------------
(* Frame pooling utility (utils.FramePooling) *)

PoolingMethods == {"average", "max", "sum"}

\* PoolExample with the average taken over the padded length max_frames
\* instead of the length of the sequence it is given
PoolExampleOverMaxFrames(xs, method) ==
  IF method = "average" THEN FloatDiv(SumSeq(xs), MaxFrames)
  ELSE IF method = "max" THEN FloatDiv(MaxSeq(xs), 1)
  ELSE FloatDiv(SumSeq(xs), 1)

\* FramePooling on one example: the reduction of its time axis
PoolExample(xs, method) ==
  IF method = "average" THEN FloatDiv(SumSeq(xs), Len(xs))
  ELSE IF method = "max" THEN FloatDiv(MaxSeq(xs), 1)
  ELSE FloatDiv(SumSeq(xs), 1)

\* FramePooling(frames, method): [batch, time, features] -> [batch, features]
FramePooling(frames, method) ==
  [b \in DOMAIN frames |-> PoolExample(frames[b], method)]

---------------------------------------------------------------------------
(* LstmModel and GRUModel *)

\* number of layers of a stack (FLAGS.lstm_layers)
MaxLayers == 2

\* stacked_lstm with the residual branch tested by its own `if`: both
\* wrappers on every cell when both flags are set
stacked_lstm_both(use_attention, use_residuals, number_of_layers) ==
  [l \in 1..number_of_layers |->
     [kind |-> "BasicLSTMCell",
      wrappers |-> (IF use_attention THEN <<"AttentionCellWrapper">> ELSE <<>>)
                   \o (IF use_residuals THEN <<"ResidualWrapper">> ELSE <<>>)]]

\* the if / elif / else that builds stacked_lstm
stacked_lstm(use_attention, use_residuals, number_of_layers) ==
  IF use_attention
    THEN [l \in 1..number_of_layers |->
            [kind |-> "BasicLSTMCell", wrappers |-> <<"AttentionCellWrapper">>]]
  ELSE IF use_residuals
    THEN [l \in 1..number_of_layers |->
            [kind |-> "BasicLSTMCell", wrappers |-> <<"ResidualWrapper">>]]
  ELSE [l \in 1..number_of_layers |->
            [kind |-> "BasicLSTMCell", wrappers |-> <<>>]]

\* the if / elif / else that builds stacked_gru
stacked_gru(use_attention, use_residuals, number_of_layers) ==
  IF use_attention
    THEN [l \in 1..number_of_layers |->
            [kind |-> "GRUCell", wrappers |-> <<"AttentionCellWrapper">>]]
  ELSE IF use_residuals
    THEN [l \in 1..number_of_layers |->
            [kind |-> "GRUCell", wrappers |-> <<"ResidualWrapper">>]]
  ELSE [l \in 1..number_of_layers |->
            [kind |-> "GRUCell", wrappers |-> <<>>]]

\* LstmRun without its sequence_length argument: every example is stepped
\* through the whole padded time axis
LstmRunWithoutLength(cells, input, counts) ==
  dynamic_rnn(cells, input, [b \in DOMAIN input |-> Len(input[b])])

\* outputs, state = tf.nn.dynamic_rnn(stacked_lstm, model_input,
\*                                    sequence_length=num_frames)
LstmRun(cells, input, counts) == dynamic_rnn(cells, input, counts)

\* outputs, state = tf.nn.dynamic_rnn(stacked_gru, model_input,
\*                                    sequence_length=num_frames)
GruRun(cells, input, counts) == dynamic_rnn(cells, input, counts)

\* Python attribute access s.h: only an LSTMStateTuple has the field
GetAttrH(s) ==
  IF s.type = "LSTMStateTuple"
    THEN [status |-> "ok", value |-> s.h]
    ELSE [status |-> "AttributeError", value |-> <<>>]

\* the flags the recurrent models read; pooling_method stays at its default
\* when use_lstm_output is false and the flag is not read
RecurrentFlags ==
  {f \in [use_attention : BOOLEAN, use_residuals : BOOLEAN,
          lstm_layers : 1..MaxLayers, use_lstm_output : BOOLEAN,
          pooling_method : PoolingMethods] :
     f.use_lstm_output \/ f.pooling_method = "average"}

LstmModel ==
  /\ called = "none"
  /\ UNCHANGED <<model_input, num_frames>>
  /\ \E f \in RecurrentFlags :
    LET cells   == stacked_lstm(f.use_attention, f.use_residuals, f.lstm_layers)
        run     == LstmRun(cells, model_input, num_frames)
        outputs == RnnOutputs(run)
        state   == RnnState(run, cells)
        agg     == IF f.use_lstm_output
                     THEN [status |-> "ok",
                           value |-> FramePooling(outputs, f.pooling_method)]
                     ELSE GetAttrH(state[Len(state)])
    IN  /\ called' = "LstmModel"
        /\ FLAGS' = f
        /\ result' = [status |-> agg.status,
                      cells |-> cells,
                      outputs |-> outputs,
                      state |-> state,
                      agg_model_inputs |-> agg.value]

GRUModel ==
  /\ called = "none"
  /\ UNCHANGED <<model_input, num_frames>>
  /\ \E f \in RecurrentFlags :
    LET cells   == stacked_gru(f.use_attention, f.use_residuals, f.lstm_layers)
        run     == GruRun(cells, model_input, num_frames)
        outputs == RnnOutputs(run)
        state   == RnnState(run, cells)
    IN  /\ called' = "GRUModel"
        /\ FLAGS' = f
        /\ result' = [status |-> "ok",
                      cells |-> cells,
                      outputs |-> outputs,
                      state |-> state,
                      agg_model_inputs |->
                        IF f.use_lstm_output
                          THEN FramePooling(outputs, f.pooling_method)
                          ELSE state[Len(state)]]

---------------------------------------------------------------------------
(* BidirectionalLSTMModel *)

\* lstm_fw and lstm_bw: unwrapped BasicLSTMCells
lstm_fw(number_of_layers) ==
  [l \in 1..number_of_layers |-> [kind |-> "BasicLSTMCell", wrappers |-> <<>>]]

lstm_bw(number_of_layers) ==
  [l \in 1..number_of_layers |-> [kind |-> "BasicLSTMCell", wrappers |-> <<>>]]

RECURSIVE Reverse(_)
Reverse(s) == IF s = <<>> THEN <<>> ELSE Append(Reverse(Tail(s)), Head(s))

\* array_ops.reverse_sequence: the first len entries reversed, the rest kept
ReverseSequence(xs, len) ==
  LET n == IF len < 0 THEN 0 ELSE IF len > Len(xs) THEN Len(xs) ELSE len
  IN  Reverse(SubSeq(xs, 1, n)) \o SubSeq(xs, n + 1, Len(xs))

\* state of a MultiRNNCell built with state_is_tuple=False, for one example:
\* the layers' c and h side by side on the feature axis
RECURSIVE ConcatLayers(_)
ConcatLayers(layers) ==
  IF layers = <<>> THEN <<>>
  ELSE <<Head(layers).c, Head(layers).h>> \o ConcatLayers(Tail(layers))

\* tf.nn.bidirectional_dynamic_rnn: the forward run, and the backward run on
\* the sequence reversed within its length, its outputs reversed back
bidirectional_dynamic_rnn(fw, bw, inputs, sequence_length) ==
  LET runfw == dynamic_rnn(fw, inputs, sequence_length)
      runbw == dynamic_rnn(bw,
                 [b \in DOMAIN inputs |->
                    ReverseSequence(inputs[b], sequence_length[b])],
                 sequence_length)
  IN  [outputs1 |->
         <<[b \in DOMAIN inputs |-> runfw[b].outputs],
           [b \in DOMAIN inputs |->
              ReverseSequence(runbw[b].outputs, sequence_length[b])]>>,
       states1 |->
         <<[b \in DOMAIN inputs |-> ConcatLayers(runfw[b].state)],
           [b \in DOMAIN inputs |-> ConcatLayers(runbw[b].state)]>>]

\* tf.concat(outputs1, 2): forward and backward outputs side by side on the
\* feature axis, for every example and time step
ConcatOutputs(outputs1) ==
  [b \in DOMAIN outputs1[1] |->
     [t \in DOMAIN outputs1[1][b] |-> <<outputs1[1][b][t], outputs1[2][b][t]>>]]

\* tf.concat(states1, 1): forward and backward states side by side on the
\* feature axis, one row per example
ConcatStates(states1) ==
  [b \in DOMAIN states1[1] |-> states1[1][b] \o states1[2][b]]

\* FramePooling on frames that are feature vectors: each feature on its own
FramePoolingVectors(frames, method) ==
  [b \in DOMAIN frames |->
     [k \in DOMAIN frames[b][1] |->
        PoolExample([t \in DOMAIN frames[b] |-> frames[b][t][k]], method)]]

\* state[-1].h on the concatenated state: indexing a [batch, features] tensor
\* with -1 takes the row of the last example, and a tensor has no field h
BidirectionalAggregate(state) ==
  [status |-> "AttributeError", selected |-> state[Len(state)], value |-> <<>>]

BidirectionalFlags ==
  {f \in [lstm_layers : 1..MaxLayers, use_lstm_output : BOOLEAN,
          pooling_method : PoolingMethods] :
     f.use_lstm_output \/ f.pooling_method = "average"}

\* The cells are BasicLSTMCells left at their default tuple state while the
\* stacks are built with state_is_tuple=False.  A library that checks the two
\* against each other stops the construction with a ValueError; one that does
\* not runs the stacks on concatenated states.
BidirectionalLSTMModel ==
  /\ called = "none"
  /\ UNCHANGED <<model_input, num_frames>>
  /\ \E f \in BidirectionalFlags, rejected \in BOOLEAN :
       LET rnn     == bidirectional_dynamic_rnn(lstm_fw(f.lstm_layers),
                        lstm_bw(f.lstm_layers), model_input, num_frames)
           outputs == ConcatOutputs(rnn.outputs1)
           state   == ConcatStates(rnn.states1)
           agg     == IF f.use_lstm_output
                        THEN [status |-> "ok", selected |-> <<>>,
                              value |-> FramePoolingVectors(outputs,
                                                            f.pooling_method)]
                        ELSE BidirectionalAggregate(state)
       IN  /\ called' = "BidirectionalLSTMModel"
           /\ FLAGS' = f
           /\ result' =
                IF rejected
                  THEN [status |-> "ValueError",
                        states1 |-> <<>>,
                        state |-> <<>>,
                        selected |-> <<>>,
                        agg_model_inputs |-> <<>>]
                  ELSE [status |-> agg.status,
                        states1 |-> rnn.states1,
                        state |-> state,
                        selected |-> agg.selected,
                        agg_model_inputs |-> agg.value]

---------------------------------------------------------------------------
(* Python name lookup inside a create_model body *)

\* names bound at module level of frame_level_models.py
ModuleGlobals ==
  {"math", "models", "video_level_models", "tf", "utils", "slim", "flags",
   "FLAGS", "FrameLevelLogisticModel", "DbofModel", "LstmModel",
   "BidirectionalLSTMModel", "GRUModel", "conv1D_pool",
   "TemporalPoolingNetworkModel", "TemporalSkippingNetworkModel"}

\* the names a statement reads that neither the call nor the module has bound
UnboundNames(reads, locals) == reads \ (locals \cup ModuleGlobals)

---------------------------------------------------------------------------
(* Integer-tensor division.  Under Python 2 the operator / on int32 tensors *)
(* is floor division.  Under Python 3 it is true division into a float,     *)
(* which dynamic_rnn casts back to int32, rounding toward zero.             *)

Divisions == {"floor", "true"}

\* rounding toward zero of n / d, d > 0
TruncDiv(n, d) == IF n >= 0 THEN n \div d ELSE -((-n) \div d)

---------------------------------------------------------------------------
(* TemporalPoolingNetworkModel *)

\* largest FLAGS.pool_stride
MaxStride == 2

\* time dimension of a VALID pooling of `time` steps: windows of pool_size
\* steps, pool_stride apart, that lie entirely inside the tensor
PooledTime(time, pool_size, pool_stride) ==
  IF time < pool_size THEN 0 ELSE (time - pool_size) \div pool_stride + 1

\* window w (1-based) of a VALID pooling
PoolWindow(xs, w, pool_size, pool_stride) ==
  SubSeq(xs, (w - 1) * pool_stride + 1, (w - 1) * pool_stride + pool_size)

\* pooled_outputs for one example.  AVG keeps the window sum: its divisor
\* pool_size is the same for every window, a scale of the tensor as a whole.
\* The learned pooling is a convolution, a weighted window sum; the weights
\* are taken as one.
PooledExample(xs, pool_size, pool_stride, pool_type, learned_pooling) ==
  [w \in 1..PooledTime(Len(xs), pool_size, pool_stride) |->
     IF learned_pooling \/ pool_type = "AVG"
       THEN SumSeq(PoolWindow(xs, w, pool_size, pool_stride))
       ELSE MaxSeq(PoolWindow(xs, w, pool_size, pool_stride))]

\* new_seq_lenth = (num_frames - pool_size)/pool_stride + 1, as dynamic_rnn
\* reads it
PooledSeqLength(counts, pool_size, pool_stride, division) ==
  [b \in DOMAIN counts |->
     IF division = "floor"
       THEN (counts[b] - pool_size) \div pool_stride + 1
       ELSE TruncDiv(counts[b] - pool_size + pool_stride, pool_stride)]

\* names bound in the call when the second dynamic_rnn statement runs
PoolingLocals ==
  {"self", "model_input", "vocab_size", "num_frames", "unused_params",
   "gru_size", "pool_size", "pool_stride", "pool_type", "learned_pooling",
   "gru_1", "outputs", "state", "pooled_outputs", "new_seq_lenth", "gru_2"}

\* the names the second dynamic_rnn statement reads
PoolingStage2Reads == {"tf", "gru_2", "pooled_outputs", "new_seq_lenth"}

\* a single GRUCell, not stacked
SingleGru == <<[kind |-> "GRUCell", wrappers |-> <<>>]>>

\* tf.concat([state, state2], axis=1): the two final states side by side
ConcatModelState(run1, run2) ==
  [b \in DOMAIN run1 |-> <<run1[b].state[1].v, run2[b].state[1].v>>]

\* tf.concat([outputs, outputs2], axis=1): the two outputs along time
ConcatModelOutputs(run1, run2) ==
  [b \in DOMAIN run1 |-> run1[b].outputs \o run2[b].outputs]

\* the flags the call reads; pool_type, unused under learned pooling, stays
\* at its default there
PoolingFlags ==
  {f \in [pool_size : 1..MaxFrames, pool_stride : 1..MaxStride,
          pool_type : {"AVG", "MAX"}, learned_pooling : BOOLEAN,
          use_lstm_output : BOOLEAN, pooling_method : {"average"}] :
     f.learned_pooling => f.pool_type = "AVG"}

TemporalPoolingNetworkModel ==
  /\ called = "none"
  /\ UNCHANGED <<model_input, num_frames>>
  /\ \E f \in PoolingFlags, division \in Divisions :
       LET run1   == dynamic_rnn(SingleGru, model_input, num_frames)
           pooled == [b \in DOMAIN model_input |->
                        PooledExample(run1[b].outputs, f.pool_size,
                                      f.pool_stride, f.pool_type,
                                      f.learned_pooling)]
           len2   == PooledSeqLength(num_frames, f.pool_size, f.pool_stride,
                                     division)
           run2   == dynamic_rnn(SingleGru, pooled, len2)
       IN  /\ called' = "TemporalPoolingNetworkModel"
           /\ FLAGS' = f
           /\ result' =
                [status |-> IF UnboundNames(PoolingStage2Reads, PoolingLocals) = {}
                              THEN "ok" ELSE "NameError",
                 division |-> division,
                 pooled_outputs |-> pooled,
                 new_seq_lenth |-> len2,
                 agg_model_inputs |->
                   IF f.use_lstm_output
                     THEN FramePooling(ConcatModelOutputs(run1, run2),
                                       f.pooling_method)
                     ELSE ConcatModelState(run1, run2)]

---------------------------------------------------------------------------
(* TemporalSkippingNetworkModel *)

\* largest FLAGS.time_skip
MaxSkip == 2

\* outputs[:, ::time_skip, :] for one example: positions 0, k, 2k, ...
Strided(xs, time_skip) ==
  [i \in 1..((Len(xs) + time_skip - 1) \div time_skip) |->
     xs[(i - 1) * time_skip + 1]]

\* new_seq_length = num_frames / time_skip
SkippedSeqLength(counts, time_skip, division) ==
  [b \in DOMAIN counts |->
     IF division = "floor"
       THEN FloatDiv(counts[b] \div time_skip, 1)
       ELSE FloatDiv(counts[b], time_skip)]

\* names bound in the call when the second dynamic_rnn statement runs
SkippingLocals ==
  {"self", "model_input", "vocab_size", "num_frames", "unused_params",
   "gru_size", "pool_type", "time_skip", "gru_1", "outputs", "state",
   "skipped_outputs", "new_seq_length", "gru_2"}

\* the names the second dynamic_rnn statement reads
SkippingStage2Reads == {"tf", "gru_2", "skipped_outputs", "new_seq_lenth"}

SkippingFlags ==
  [time_skip : 1..MaxSkip, use_lstm_output : BOOLEAN,
   pooling_method : {"average"}]

\* The second dynamic_rnn statement reads new_seq_lenth, which this call
\* never binds: the call stops there with a NameError.
TemporalSkippingNetworkModel ==
  /\ called = "none"
  /\ UNCHANGED <<model_input, num_frames>>
  /\ \E f \in SkippingFlags, division \in Divisions :
       LET run1    == dynamic_rnn(SingleGru, model_input, num_frames)
           skipped == [b \in DOMAIN model_input |->
                         Strided(run1[b].outputs, f.time_skip)]
           unbound == UnboundNames(SkippingStage2Reads, SkippingLocals)
       IN  /\ called' = "TemporalSkippingNetworkModel"
           /\ FLAGS' = f
           /\ result' =
                [status |-> IF unbound = {} THEN "ok" ELSE "NameError",
                 unbound |-> unbound,
                 division |-> division,
                 skipped_outputs |-> skipped,
                 new_seq_length |->
                   SkippedSeqLength(num_frames, f.time_skip, division),
                 agg_model_inputs |-> <<>>]

---------------------------------------------------------------------------
(* A direct call of the pooling utility on the first `time` steps of the   *)
(* batch                                                                   *)

FramePoolingCall ==
  /\ called = "none"
  /\ UNCHANGED <<model_input, num_frames>>
  /\ \E method \in PoolingMethods, time \in 1..MaxFrames :
       LET frames == [b \in DOMAIN model_input |->
                        SubSeq(model_input[b], 1, time)]
       IN  /\ called' = "FramePooling"
           /\ FLAGS' = [pooling_method |-> method]
           /\ result' = [status |-> "ok",
                         frames |-> frames,
                         pooled |-> FramePooling(frames, method)]

---------------------------------------------------------------------------
(* Frame samplers (utils.SampleRandomFrames, utils.SampleRandomSequence).  *)
(* A sampler's random draw is a choice: each is the set of frame_index      *)
(* tensors [batch, num_samples] it can produce, positions counted from 0.   *)

\* largest number of samples (iterations)
MaxSamples == 2

\* num_samples positions per example, each drawn from [0, count); for a
\* count of 0 that interval is empty and the draw is left open: any position
\* of the padded example
SampleRandomFrames(counts, num_samples) ==
  {fi \in [DOMAIN counts -> [1..num_samples -> 0..(MaxFrames - 1)]] :
     \A b \in DOMAIN counts : \A i \in 1..num_samples :
       counts[b] > 0 => fi[b][i] < counts[b]}

\* one start per example, drawn from [0, count - num_samples] (clamped to 0
\* when count < num_samples), and the num_samples positions from it on
SampleRandomSequence(counts, num_samples) ==
  {[b \in DOMAIN counts |-> [i \in 1..num_samples |-> start[b] + i - 1]] :
     start \in {st \in [DOMAIN counts -> 0..MaxFrames] :
                  \A b \in DOMAIN counts :
                    st[b] <= (IF counts[b] - num_samples > 0
                                THEN counts[b] - num_samples ELSE 0)}}

\* the frames at the sampled positions
GatherFrames(input, frame_index) ==
  [b \in DOMAIN input |->
     [i \in DOMAIN frame_index[b] |->
        IF frame_index[b][i] + 1 \in DOMAIN input[b]
          THEN input[b][frame_index[b][i] + 1] ELSE 0]]

---------------------------------------------------------------------------
(* DbofModel *)

\* an optional argument: {} when it is left at None, {v} when v is passed

\* Python's `arg or flag` on booleans: arg when it is truthy, else flag
PyOrBool(arg, flag) ==
  IF arg = {} THEN flag
  ELSE IF \E v \in arg : v THEN TRUE ELSE flag

\* Python's `arg or flag` on integers: arg when it is non-zero, else flag
PyOrInt(arg, flag) ==
  IF arg = {} THEN flag
  ELSE IF \E v \in arg : v # 0 THEN CHOOSE v \in arg : TRUE ELSE flag

\* the sampler call with every example's count replaced by max_frames
DbofSampleAllFrames(random_frames, counts, iterations) ==
  IF random_frames
    THEN SampleRandomFrames([b \in DOMAIN counts |-> MaxFrames], iterations)
    ELSE SampleRandomSequence([b \in DOMAIN counts |-> MaxFrames], iterations)

\* if random_frames: SampleRandomFrames(model_input, num_frames, iterations)
\* else:             SampleRandomSequence(model_input, num_frames, iterations)
DbofSample(random_frames, counts, iterations) ==
  IF random_frames
    THEN SampleRandomFrames(counts, iterations)
    ELSE SampleRandomSequence(counts, iterations)

\* tf.nn.relu6
Relu6(v) == IF v < 0 THEN 0 ELSE IF v > 6 THEN 6 ELSE v

\* the cluster layer on the sampled frames, learned weights taken as one:
\* relu6 of every frame, time axis kept
ClusterActivation(sampled) ==
  [b \in DOMAIN sampled |-> [i \in DOMAIN sampled[b] |-> Relu6(sampled[b][i])]]

\* the arguments of a call and the flags it reads; a flag the call does not
\* read (its argument is truthy) stays at one value
DbofArguments ==
  {a \in [iterations : {{}} \cup {{n} : n \in 0..MaxSamples},
          add_batch_norm : {{}, {TRUE}, {FALSE}},
          sample_random_frames : {{}, {TRUE}, {FALSE}}] : TRUE}

DbofFlags(a) ==
  {f \in [iterations : 1..MaxSamples,
          dbof_add_batch_norm : BOOLEAN,
          sample_random_frames : BOOLEAN,
          dbof_pooling_method : {"max"}] :
     /\ (a.iterations \notin {{}, {0}}) => f.iterations = MaxSamples
     /\ a.add_batch_norm = {TRUE} => f.dbof_add_batch_norm
     /\ a.sample_random_frames = {TRUE} => f.sample_random_frames}

\* Without batch normalization the cluster biases are created with
\* initializer = tf.random_normal(stddev=...), a call that lacks the required
\* shape argument: the construction stops there with a TypeError.
DbofModel ==
  /\ called = "none"
  /\ UNCHANGED <<model_input, num_frames>>
  /\ \E a \in DbofArguments :
     \E f \in DbofFlags(a) :
       LET iterations     == PyOrInt(a.iterations, f.iterations)
           add_batch_norm == PyOrBool(a.add_batch_norm, f.dbof_add_batch_norm)
           random_frames  == PyOrBool(a.sample_random_frames,
                                      f.sample_random_frames)
       IN  \E frame_index \in DbofSample(random_frames, num_frames, iterations) :
             LET sampled == GatherFrames(model_input, frame_index)
             IN  /\ called' = "DbofModel"
                 /\ FLAGS' = f
                 /\ result' =
                      [status |-> IF add_batch_norm THEN "ok" ELSE "TypeError",
                       args |-> a,
                       iterations |-> iterations,
                       add_batch_norm |-> add_batch_norm,
                       sampler |-> IF random_frames THEN "SampleRandomFrames"
                                   ELSE "SampleRandomSequence",
                       frame_index |-> frame_index,
                       sampled |-> sampled,
                       activation |->
                         IF add_batch_norm
                           THEN FramePooling(ClusterActivation(sampled),
                                             f.dbof_pooling_method)
                           ELSE <<>>]

---------------------------------------------------------------------------
\* a batch has been read: padded frames and their true counts; no call yet
Init ==
  /\ called = "none"
  /\ FLAGS = [none |-> TRUE]
  /\ model_input \in Inputs
  /\ num_frames \in FrameCounts
  /\ result = [status |-> "none"]

\* a call has returned; the builders keep nothing between calls
Return ==
  /\ called # "none"
  /\ called' = "none"
  /\ FLAGS' = [none |-> TRUE]
  /\ result' = [status |-> "none"]
  /\ UNCHANGED <<model_input, num_frames>>

Next ==
  \/ FrameLevelLogisticModel
  \/ LstmModel
  \/ GRUModel
  \/ BidirectionalLSTMModel
  \/ TemporalPoolingNetworkModel
  \/ TemporalSkippingNetworkModel
  \/ FramePoolingCall
  \/ Return

Spec == Init /\ [][Next]_vars

\* the batch the DBoF model is followed on: every frame holds its own
\* position, so the sampled frames show which positions were read
IndexedInput == [b \in BatchIndex |-> [t \in TimeIndex |-> t - 1]]

InitDbof ==
  /\ called = "none"
  /\ FLAGS = [none |-> TRUE]
  /\ model_input = IndexedInput
  /\ num_frames \in FrameCounts
  /\ result = [status |-> "none"]

NextDbof ==
  \/ DbofModel
  \/ Return

SpecDbof == InitDbof /\ [][NextDbof]_vars

---------------------------------------------------------------------------
(* Claims *)

\* the true frames of every example: positions 0 .. count-1
ValidPrefix(input, counts) ==
  [b \in DOMAIN input |-> SubSeq(input[b], 1, counts[b])]

\* C1 (as claimed): for every example with 0 < count <= max_frames the
\* logistic model's pooled vector is the sum of the frames at the valid
\* positions 0 .. count-1 only, divided by count; what the padding positions
\* hold does not contribute.
C1_AveragesValidFramesOnly ==
  called = "FrameLevelLogisticModel" =>
    \A b \in BatchIndex :
      (0 < num_frames[b] /\ num_frames[b] <= MaxFrames) =>
        FloatEq(result.avg_pooled[b],
                FloatDiv(SumSeq(ValidPrefix(model_input, num_frames)[b]),
                         num_frames[b]))

\* C2 (as claimed): the logistic model guards its averaging division on
\* count > 0: whenever an example of the batch has a frame count of 0, the
\* division made for it has no zero denominator.
C2_NoZeroDenominator ==
  called = "FrameLevelLogisticModel" =>
    \A b \in BatchIndex :
      num_frames[b] = 0 =>
        result.denominators[b] # 0 /\ result.avg_pooled[b].kind = "finite"

\* C3: the final state of the last layer of LstmModel and of GRUModel is the
\* state reached on the true frames alone (positions < count), so two batches
\* that agree on those frames and differ in the padding end in the same
\* state, and no step at or after the count-th changes it; with
\* use_lstm_output false that state (its h, for the LSTM) is the vector
\* handed to the classifier.
C3_PaddingDoesNotReachFinalState ==
  /\ called = "LstmModel" =>
       LET prefix == RnnState(LstmRun(result.cells,
                                      ValidPrefix(model_input, num_frames),
                                      num_frames), result.cells)
       IN  /\ result.state[Len(result.state)] = prefix[Len(prefix)]
           /\ (~FLAGS.use_lstm_output /\ result.status = "ok") =>
                result.agg_model_inputs = prefix[Len(prefix)].h
  /\ called = "GRUModel" =>
       LET prefix == RnnState(GruRun(result.cells,
                                     ValidPrefix(model_input, num_frames),
                                     num_frames), result.cells)
       IN  /\ result.state[Len(result.state)] = prefix[Len(prefix)]
           /\ ~FLAGS.use_lstm_output =>
                result.agg_model_inputs = prefix[Len(prefix)]

\* C3 witness: an LSTM run handing its final h to the classifier, on an
\* example with true frames, padding after them, and a non-zero padding frame
C3_Witness ==
  /\ called = "LstmModel"
  /\ ~FLAGS.use_lstm_output
  /\ result.status = "ok"
  /\ \E b \in BatchIndex :
       /\ num_frames[b] >= 1
       /\ num_frames[b] < MaxFrames
       /\ model_input[b][MaxFrames] # 0

\* number of VALID pooling windows that lie entirely inside the first c frames
ValidWindows(c, pool_size, pool_stride) ==
  Cardinality({w \in 1..PooledTime(MaxFrames, pool_size, pool_stride) :
                 (w - 1) * pool_stride + pool_size <= c})

\* C5 (as claimed): under integer division the sequence length handed to the
\* second stage of the temporal pooling model is the number of VALID pooling
\* windows inside the first count frames, hence >= 0 and at most the time
\* dimension of the pooled tensor.
C5_PooledLengthCountsValidWindows ==
  (called = "TemporalPoolingNetworkModel" /\ result.division = "floor") =>
    \A b \in BatchIndex :
      /\ result.new_seq_lenth[b] =
           ValidWindows(num_frames[b], FLAGS.pool_size, FLAGS.pool_stride)
      /\ result.new_seq_lenth[b] >= 0
      /\ result.new_seq_lenth[b] <= Len(result.pooled_outputs[b])

\* number of frames the strided slice keeps whose original position is < c
KeptValidFrames(c, time_skip) ==
  Cardinality({i \in 1..((MaxFrames + time_skip - 1) \div time_skip) :
                 (i - 1) * time_skip < c})

\* C6 (as claimed): under integer division the length count / time_skip
\* recomputed by the temporal skipping model is the number of frames kept by
\* outputs[:, ::time_skip, :] whose original position is below count.
C6_SkippedLengthCountsKeptFrames ==
  (called = "TemporalSkippingNetworkModel" /\ result.division = "floor") =>
    \A b \in BatchIndex :
      FloatEq(result.new_seq_length[b],
              FloatDiv(KeptValidFrames(num_frames[b], FLAGS.time_skip), 1))

\* every time step of example b holds the same vector
AllEqual(xs) == \A t \in DOMAIN xs : xs[t] = xs[1]

\* C7 (as claimed): pooling a sequence of T >= 1 time steps that all hold the
\* same vector v returns v, for average, max and sum alike.
C7_PoolingOfEqualFramesIsTheFrame ==
  called = "FramePooling" =>
    \A b \in BatchIndex :
      AllEqual(result.frames[b]) =>
        FloatEq(result.pooled[b], FloatDiv(result.frames[b][1], 1))

\* C7 (amended): pooling a sequence of T >= 1 time steps that all hold the
\* same vector v returns v for average and max, and T * v for sum.
C7_PoolingOfEqualFrames ==
  called = "FramePooling" =>
    \A b \in BatchIndex :
      AllEqual(result.frames[b]) =>
        FloatEq(result.pooled[b],
                IF FLAGS.pooling_method = "sum"
                  THEN FloatDiv(Len(result.frames[b]) * result.frames[b][1], 1)
                  ELSE FloatDiv(result.frames[b][1], 1))

\* C7 witness: sum pooling over at least two equal, non-zero time steps
C7_Witness ==
  /\ called = "FramePooling"
  /\ FLAGS.pooling_method = "sum"
  /\ \E b \in BatchIndex :
       /\ Len(result.frames[b]) >= 2
       /\ AllEqual(result.frames[b])
       /\ result.frames[b][1] # 0

\* C8: whatever use_attention and use_residuals are, the stack of LstmModel
\* and of GRUModel has lstm_layers cells, each under at most one wrapper, all
\* under the same wrappers, and none under the residual wrapper when
\* use_attention is set.
C8_WrappersAreExclusive ==
  called \in {"LstmModel", "GRUModel"} =>
    /\ Len(result.cells) = FLAGS.lstm_layers
    /\ \A l \in DOMAIN result.cells :
         /\ Len(result.cells[l].wrappers) <= 1
         /\ result.cells[l].wrappers = result.cells[1].wrappers
         /\ FLAGS.use_attention =>
              \A i \in DOMAIN result.cells[l].wrappers :
                result.cells[l].wrappers[i] # "ResidualWrapper"

\* C8 witness: an LSTM stack of several layers built with both flags set
C8_Witness ==
  /\ called = "LstmModel"
  /\ FLAGS.use_attention
  /\ FLAGS.use_residuals
  /\ FLAGS.lstm_layers >= 2
  /\ result.cells[1].wrappers = <<"AttentionCellWrapper">>

\* C9 (as claimed): every name the temporal skipping model reads while
\* building its second stage was bound earlier in the call, so the call
\* reaches the classifier and returns instead of stopping with an error.
C9_SkippingStageTwoIsBuilt ==
  called = "TemporalSkippingNetworkModel" =>
    result.unbound = {} /\ result.status = "ok"

\* C10 (as claimed): with use_lstm_output false the bidirectional model hands
\* the classifier one row per example, the forward and backward final states
\* side by side on the feature axis.
C10_BidirectionalStateKeepsBatch ==
  (called = "BidirectionalLSTMModel" /\ ~FLAGS.use_lstm_output) =>
    /\ result.status = "ok"
    /\ Len(result.agg_model_inputs) = BatchSize
    /\ result.agg_model_inputs = ConcatStates(result.states1)

Supplied(arg) == CHOOSE v \in arg : TRUE

\* C11 (as claimed): in DbofModel.create_model an argument the caller passes
\* takes precedence over the flag of the same meaning, whatever its value, and
\* the flag is used only when the argument is left at None: add_batch_norm =
\* False gives a graph without batch normalization and sample_random_frames =
\* False selects SampleRandomSequence, also when the flags
\* dbof_add_batch_norm and sample_random_frames are true.
C11_ExplicitArgumentWins ==
  called = "DbofModel" =>
    /\ result.iterations =
         (IF result.args.iterations = {} THEN FLAGS.iterations
          ELSE Supplied(result.args.iterations))
    /\ result.add_batch_norm =
         (IF result.args.add_batch_norm = {} THEN FLAGS.dbof_add_batch_norm
          ELSE Supplied(result.args.add_batch_norm))
    /\ (result.sampler = "SampleRandomFrames") =
         (IF result.args.sample_random_frames = {}
            THEN FLAGS.sample_random_frames
            ELSE Supplied(result.args.sample_random_frames))

=============================================================================
